---- MODULE Spec2Model ----
(***************************************************************************)
(* Model of fetch_market_data.py: main() reads a YAML configuration,       *)
(* fetches one table per ticker from the provider, writes one CSV per      *)
(* non-empty table and one merged CSV.                                     *)
(*                                                                         *)
(* A Python str is a sequence of Unicode code points (naturals); str       *)
(* comparison is the lexicographic order on code points.  A DataFrame is   *)
(* the sequence of its rows, a row a record from column name to value.     *)
(***************************************************************************)
EXTENDS Integers, Sequences, FiniteSets, Bags, TLC

\* ------------------------------------------------------------------ bounds
\* Longest tickers list of a configuration.
MaxTickers == 2
\* Longest string given to sanitize in SpecSanitize.
MaxLen == 2

\* ----------------------------------------------------------------- strings
\* The tickers of the configurations: "^A", "_A", "B".
TK_CARET_A == <<94, 65>>
TK_UNDER_A == <<95, 65>>
TK_B == <<66>>
Symbols == {TK_CARET_A, TK_UNDER_A, TK_B}

\* "S&P"
ALIAS_SP == <<83, 38, 80>>

\* Code points the strings given to sanitize are drawn from:
\* 'A' 'z' '7' '-' '_' '.' '(' ')' ' ' '^' '=' '&' '/'
Alphabet == {65, 122, 55, 45, 95, 46, 40, 41, 32, 94, 61, 38, 47}

\* str.isalnum() of one character, on the ASCII range.
isalnum(c) ==
    \/ (48 <= c /\ c <= 57)
    \/ (65 <= c /\ c <= 90)
    \/ (97 <= c /\ c <= 122)

\* keep = "-_.() "
keep == {45, 95, 46, 40, 41, 32}

\* Variant of sanitize that removes the other characters instead of replacing them.
sanitizeDropping(name) ==
    SelectSeq(name, LAMBDA c : isalnum(c) \/ c \in keep)

\* "".join(c if c.isalnum() or c in keep else "_" for c in name)
sanitize(name) ==
    [k \in 1..Len(name) |->
        IF isalnum(name[k]) \/ name[k] \in keep THEN name[k] ELSE 95]

\* Python's < on str.
RECURSIVE StrLess(_, _)
StrLess(a, b) ==
    IF b = <<>> THEN FALSE
    ELSE IF a = <<>> THEN TRUE
    ELSE IF a[1] < b[1] THEN TRUE
    ELSE IF a[1] > b[1] THEN FALSE
    ELSE StrLess(Tail(a), Tail(b))

\* ------------------------------------------------------------ the provider
\* A row of the table yf.download returns: the Date index and the provider's
\* column labels.
RawRow(d, p) ==
    [Date |-> d, Open |-> p, High |-> p + 1, Low |-> p - 1, Close |-> p,
     Volume |-> 100 * p] @@ ("Adj Close" :> p)

DAY1 == [y |-> 2024, m |-> 1, d |-> 2]
DAY2 == [y |-> 2024, m |-> 11, d |-> 29]

\* The non-empty tables the provider may answer a request with.  The same
\* ticker may get different answers on different requests.
RawTables ==
    { << RawRow(DAY2, 10) >>,
      << RawRow(DAY1, 11), RawRow(DAY2, 12) >> }

\* ---------------------------------------------------------------- fetch_one
Digit(n) == 48 + n

\* strftime("%Y-%m-%d")
strftime(t) ==
    << Digit(t.y \div 1000), Digit((t.y \div 100) % 10),
       Digit((t.y \div 10) % 10), Digit(t.y % 10), 45,
       Digit(t.m \div 10), Digit(t.m % 10), 45,
       Digit(t.d \div 10), Digit(t.d % 10) >>

\* The two rename(columns=...) calls around reset_index().
NewLabel(c) ==
    CASE c = "Open" -> "open"
      [] c = "High" -> "high"
      [] c = "Low" -> "low"
      [] c = "Close" -> "close"
      [] c = "Adj Close" -> "adj_close"
      [] c = "Volume" -> "volume"
      [] c = "Date" -> "date"
      [] OTHER -> c

rename(row) ==
    [c \in {NewLabel(k) : k \in DOMAIN row} |->
        row[CHOOSE k \in DOMAIN row : NewLabel(k) = c]]

COLUMNS ==
    <<"date", "ticker", "open", "high", "low", "close", "adj_close", "volume">>

\* One row of the frame fetch_one returns.
NormalRow(raw, ticker) ==
    LET r == rename(raw)
        withTicker == [c \in DOMAIN r \cup {"ticker"} |->
                          IF c = "ticker" THEN ticker ELSE r[c]]
        withDate == [withTicker EXCEPT !["date"] = strftime(@)]
    IN  [c \in {COLUMNS[k] : k \in 1..Len(COLUMNS)} |-> withDate[c]]

\* fetch_one on the provider's answer `raw` (<<>> when df.empty).
fetch_one(ticker, raw) ==
    IF raw = <<>> THEN <<>>
    ELSE [k \in 1..Len(raw) |-> NormalRow(raw[k], ticker)]

\* ------------------------------------------------------------ configuration
\* A YAML mapping is a function on the keys present in the file.
get(d, key, default) == IF key \in DOMAIN d THEN d[key] ELSE default

\* A YAML scalar used as an alias: a str, or not a str (an unquoted number).
Str(s) == [isstr |-> TRUE, val |-> s]
NotStr == [isstr |-> FALSE, val |-> <<>>]

EmptyMap == [k \in {} |-> 0]

AliasMaps ==
    { EmptyMap,
      (TK_CARET_A :> Str(ALIAS_SP)),
      (TK_B :> NotStr) }

RECURSIVE SeqsUpTo(_, _)
SeqsUpTo(S, n) ==
    IF n = 0 THEN { <<>> }
    ELSE LET shorter == SeqsUpTo(S, n - 1)
         IN  shorter \cup
             { Append(s, x) : s \in {t \in shorter : Len(t) = n - 1}, x \in S }

TickerLists == SeqsUpTo(Symbols, MaxTickers)

\* The configuration files: each of `tickers` and `aliases` present or absent.
ConfigFiles ==
    { ("tickers" :> t) @@ ("aliases" :> a) : t \in TickerLists, a \in AliasMaps }
    \cup { ("tickers" :> t) : t \in TickerLists }
    \cup { ("aliases" :> a) : a \in AliasMaps }
    \cup { EmptyMap }

\* "ALL_TICKERS_MERGED.csv"
MERGED_NAME ==
    <<65, 76, 76, 95, 84, 73, 67, 75, 69, 82, 83, 95, 77, 69, 82, 71, 69, 68,
      46, 99, 115, 118>>

\* ".csv"
CSV_EXT == <<46, 99, 115, 118>>

\* -------------------------------------------------------------------- state
VARIABLES
    argc,        \* len(sys.argv)
    config_file, \* the file at sys.argv[1]: whether it loads, and its content
    pc,          \* "main", "loop", "exited"
    cfg,         \* what load_config returned (EmptyMap before)
    out_dir,     \* TRUE once os.makedirs(out_dir) ran
    i,           \* position of the for loop in tickers (1-based)
    all_frames,  \* the list all_frames
    files,       \* the files of out_dir: file name -> rows written
    log,         \* the lines printed
    calls,       \* the calls that returned: download, to_csv, sleep, in order
    outcomes,    \* what happened to each ticker handled so far
    exit_status, \* the process's exit status, -1 while running
    san_in,      \* SpecSanitize: the string given to sanitize
    san_out,     \* SpecSanitize: sanitize(san_in), once applied
    san_twice,   \* SpecSanitize: sanitize(san_out), once applied
    san_pc       \* SpecSanitize: number of applications done

vars == <<argc, config_file, pc, cfg, out_dir, i, all_frames, files, log,
          calls, outcomes, exit_status, san_in, san_out, san_twice, san_pc>>

sanVars == <<san_in, san_out, san_twice, san_pc>>
mainVars == <<argc, config_file, pc, cfg, out_dir, i, all_frames, files, log,
              calls, outcomes, exit_status>>

tickers == get(cfg, "tickers", <<>>)
aliases == get(cfg, "aliases", EmptyMap)

Init ==
    /\ argc \in {1, 2}
    /\ config_file \in {[loads |-> TRUE, content |-> c] : c \in ConfigFiles}
                      \cup {[loads |-> FALSE, content |-> EmptyMap]}
    /\ pc = "main"
    /\ cfg = EmptyMap
    /\ out_dir = FALSE
    /\ i = 1
    /\ all_frames = <<>>
    /\ files = EmptyMap
    /\ log = <<>>
    /\ calls = <<>>
    /\ outcomes = <<>>
    /\ exit_status = -1
    /\ san_in = <<>>
    /\ san_out = <<>>
    /\ san_twice = <<>>
    /\ san_pc = 0

\* ------------------------------------------------------------------ helpers
\* A printed line: its text, the ticker and the count it names, and the loop
\* position it was printed at.
Printed(msg, tk, n) == [msg |-> msg, tk |-> tk, n |-> n, at |-> i]
Call(op, arg, at) == [op |-> op, arg |-> arg, at |-> at]
Outcome(kind, df) == [kind |-> kind, df |-> df]

\* alias = aliases.get(tk, tk)
AliasOf(tk) == get(aliases, tk, Str(tk))

\* Variant of fname that ignores the alias.
FileNameWithoutAlias(alias, tk) ==
    sanitize(tk) \o <<95, 95>> \o sanitize(tk) \o CSV_EXT

\* f"{sanitize(alias)}__{sanitize(tk)}.csv"
FileName(alias, tk) ==
    sanitize(alias) \o <<95, 95>> \o sanitize(tk) \o CSV_EXT

\* pd.concat(all_frames, ignore_index=True)
RECURSIVE concat(_)
concat(frames) ==
    IF frames = <<>> THEN <<>> ELSE Head(frames) \o concat(Tail(frames))

\* Variant of the row order that sorts on date alone.
KeyLessDateOnly(a, b) == StrLess(a.date, b.date)

\* Row order of sort_values(["ticker","date"]).
KeyLess(a, b) ==
    \/ StrLess(a.ticker, b.ticker)
    \/ (a.ticker = b.ticker /\ StrLess(a.date, b.date))

RECURSIVE Insert(_, _)
Insert(r, s) ==
    IF s = <<>> THEN <<r>>
    ELSE IF KeyLess(r, Head(s)) THEN <<r>> \o s
    ELSE <<Head(s)>> \o Insert(r, Tail(s))

RECURSIVE SortPrefix(_, _)
SortPrefix(rows, n) ==
    IF n = 0 THEN <<>> ELSE Insert(rows[n], SortPrefix(rows, n - 1))

\* merged.sort_values(["ticker","date"]): a stable sort on the two keys.
sort_values(rows) == SortPrefix(rows, Len(rows))

\* ------------------------------------------------------------------- main()
\* Lines 62-64: no config path on the command line.
MainUsage ==
    /\ pc = "main"
    /\ argc < 2
    /\ log' = Append(log, Printed("Usage", <<>>, 0))
    /\ exit_status' = 1
    /\ pc' = "exited"
    /\ UNCHANGED <<argc, config_file, cfg, out_dir, i, all_frames, files,
                   calls, outcomes>>
    /\ UNCHANGED sanVars

\* Line 65: load_config raises (file missing or unparseable); nothing catches it.
MainLoadError ==
    /\ pc = "main"
    /\ argc >= 2
    /\ ~config_file.loads
    /\ exit_status' = 1
    /\ pc' = "exited"
    /\ UNCHANGED <<argc, config_file, cfg, out_dir, i, all_frames, files, log,
                   calls, outcomes>>
    /\ UNCHANGED sanVars

\* Variant of the empty-tickers branch that goes on into the loop.
MainNoTickersContinue ==
    /\ pc = "main"
    /\ argc >= 2
    /\ config_file.loads
    /\ get(config_file.content, "tickers", <<>>) = <<>>
    /\ cfg' = config_file.content
    /\ out_dir' = TRUE
    /\ pc' = "loop"
    /\ i' = 1
    /\ all_frames' = <<>>
    /\ UNCHANGED <<argc, config_file, files, log, calls, outcomes, exit_status>>
    /\ UNCHANGED sanVars

\* Lines 65-75 with an empty or absent tickers list.
MainNoTickers ==
    /\ pc = "main"
    /\ argc >= 2
    /\ config_file.loads
    /\ get(config_file.content, "tickers", <<>>) = <<>>
    /\ cfg' = config_file.content
    /\ out_dir' = TRUE
    /\ log' = Append(log, Printed("No tickers found in config.", <<>>, 0))
    /\ exit_status' = 1
    /\ pc' = "exited"
    /\ UNCHANGED <<argc, config_file, i, all_frames, files, calls, outcomes>>
    /\ UNCHANGED sanVars

\* Lines 65-77 with a non-empty tickers list.
MainEnterLoop ==
    /\ pc = "main"
    /\ argc >= 2
    /\ config_file.loads
    /\ get(config_file.content, "tickers", <<>>) # <<>>
    /\ cfg' = config_file.content
    /\ out_dir' = TRUE
    /\ all_frames' = <<>>
    /\ i' = 1
    /\ pc' = "loop"
    /\ UNCHANGED <<argc, config_file, files, log, calls, outcomes, exit_status>>
    /\ UNCHANGED sanVars

InLoop == pc = "loop" /\ i <= Len(tickers)

\* Lines 79 and 81 (the request), common to every iteration.
Fetching(tk) == Printed("Fetching", tk, 0)
Download(tk) == Call("download", tk, i)

\* Variant of the exception handler that ends the run.
IterErrorAbort ==
    /\ InLoop
    /\ LET tk == tickers[i] IN
        /\ log' = log \o << Fetching(tk), Printed("ERROR", tk, 0) >>
        /\ calls' = Append(calls, Download(tk))
        /\ outcomes' = Append(outcomes, Outcome("error", <<>>))
    /\ exit_status' = 1
    /\ pc' = "exited"
    /\ UNCHANGED <<argc, config_file, cfg, out_dir, i, all_frames, files>>
    /\ UNCHANGED sanVars

\* Lines 79-81, 91-92: fetch_one raises.
IterError ==
    /\ InLoop
    /\ LET tk == tickers[i] IN
        /\ log' = log \o << Fetching(tk), Printed("ERROR", tk, 0) >>
        /\ calls' = Append(calls, Download(tk))
        /\ outcomes' = Append(outcomes, Outcome("error", <<>>))
    /\ i' = i + 1
    /\ UNCHANGED <<argc, config_file, pc, cfg, out_dir, all_frames, files,
                   exit_status>>
    /\ UNCHANGED sanVars

\* Variant of the empty branch without the continue: the frame is kept and written.
IterEmptySaved ==
    /\ InLoop
    /\ LET tk == tickers[i]
           df == fetch_one(tk, <<>>)
       IN
        /\ AliasOf(tk).isstr
        /\ log' = log \o << Fetching(tk) >>
        /\ all_frames' = Append(all_frames, df)
        /\ files' = (FileName(AliasOf(tk).val, tk) :> df) @@ files
        /\ calls' = calls \o << Download(tk),
                                Call("to_csv", FileName(AliasOf(tk).val, tk), i),
                                Call("sleep", <<>>, i) >>
        /\ outcomes' = Append(outcomes, Outcome("empty", df))
    /\ i' = i + 1
    /\ UNCHANGED <<argc, config_file, pc, cfg, out_dir, exit_status>>
    /\ UNCHANGED sanVars

\* Lines 79-84: the provider has no rows; continue.
IterEmpty ==
    /\ InLoop
    /\ LET tk == tickers[i]
           df == fetch_one(tk, <<>>)
       IN
        /\ df = <<>>
        /\ log' = log \o << Fetching(tk), Printed("EMPTY", tk, 0) >>
        /\ calls' = Append(calls, Download(tk))
        /\ outcomes' = Append(outcomes, Outcome("empty", df))
    /\ i' = i + 1
    /\ UNCHANGED <<argc, config_file, pc, cfg, out_dir, all_frames, files,
                   exit_status>>
    /\ UNCHANGED sanVars

\* Lines 79-88, 91-92: rows fetched and appended, then sanitize(alias) raises
\* because the alias is not a str.
IterNameError ==
    /\ InLoop
    /\ \E raw \in RawTables :
        LET tk == tickers[i]
            df == fetch_one(tk, raw)
        IN
        /\ ~AliasOf(tk).isstr
        /\ all_frames' = Append(all_frames, df)
        /\ log' = log \o << Fetching(tk), Printed("ERROR", tk, 0) >>
        /\ calls' = Append(calls, Download(tk))
        /\ outcomes' = Append(outcomes, Outcome("name_error", df))
    /\ i' = i + 1
    /\ UNCHANGED <<argc, config_file, pc, cfg, out_dir, files, exit_status>>
    /\ UNCHANGED sanVars

\* Lines 79-89, 91-92: rows fetched and appended, then to_csv raises (the file
\* cannot be opened for writing).
IterWriteError ==
    /\ InLoop
    /\ \E raw \in RawTables :
        LET tk == tickers[i]
            df == fetch_one(tk, raw)
        IN
        /\ AliasOf(tk).isstr
        /\ all_frames' = Append(all_frames, df)
        /\ log' = log \o << Fetching(tk), Printed("ERROR", tk, 0) >>
        /\ calls' = Append(calls, Download(tk))
        /\ outcomes' = Append(outcomes, Outcome("write_error", df))
    /\ i' = i + 1
    /\ UNCHANGED <<argc, config_file, pc, cfg, out_dir, files, exit_status>>
    /\ UNCHANGED sanVars

\* Lines 79-90: rows fetched, appended, written to the per-ticker file; sleep.
IterSaved ==
    /\ InLoop
    /\ \E raw \in RawTables :
        LET tk == tickers[i]
            df == fetch_one(tk, raw)
            fname == FileName(AliasOf(tk).val, tk)
        IN
        /\ AliasOf(tk).isstr
        /\ all_frames' = Append(all_frames, df)
        /\ files' = (fname :> df) @@ files
        /\ log' = Append(log, Fetching(tk))
        /\ calls' = calls \o << Download(tk), Call("to_csv", fname, i),
                                Call("sleep", <<>>, i) >>
        /\ outcomes' = Append(outcomes, Outcome("saved", df))
    /\ i' = i + 1
    /\ UNCHANGED <<argc, config_file, pc, cfg, out_dir, exit_status>>
    /\ UNCHANGED sanVars

AfterLoop == pc = "loop" /\ i > Len(tickers)

\* Lines 94-98.
Merge ==
    /\ AfterLoop
    /\ all_frames # <<>>
    /\ LET merged == sort_values(concat(all_frames)) IN
        /\ files' = (MERGED_NAME :> merged) @@ files
        /\ calls' = Append(calls, Call("to_csv", MERGED_NAME, i))
    /\ log' = Append(log, Printed("Saved", <<>>, Len(all_frames)))
    /\ exit_status' = 0
    /\ pc' = "exited"
    /\ UNCHANGED <<argc, config_file, cfg, out_dir, i, all_frames, outcomes>>
    /\ UNCHANGED sanVars

\* Lines 94-97: to_csv of the merged frame raises; nothing catches it.
MergeWriteError ==
    /\ AfterLoop
    /\ all_frames # <<>>
    /\ exit_status' = 1
    /\ pc' = "exited"
    /\ UNCHANGED <<argc, config_file, cfg, out_dir, i, all_frames, files, log,
                   calls, outcomes>>
    /\ UNCHANGED sanVars

\* Lines 99-100.
NoData ==
    /\ AfterLoop
    /\ all_frames = <<>>
    /\ log' = Append(log, Printed("No data fetched.", <<>>, 0))
    /\ exit_status' = 0
    /\ pc' = "exited"
    /\ UNCHANGED <<argc, config_file, cfg, out_dir, i, all_frames, files,
                   calls, outcomes>>
    /\ UNCHANGED sanVars

Next ==
    \/ MainUsage
    \/ MainLoadError
    \/ MainNoTickers
    \/ MainEnterLoop
    \/ IterError
    \/ IterEmpty
    \/ IterNameError
    \/ IterWriteError
    \/ IterSaved
    \/ Merge
    \/ MergeWriteError
    \/ NoData

Spec == Init /\ [][Next]_vars

\* --------------------------------------------------------- sanitize, alone
InitSanitize ==
    /\ argc = 1
    /\ config_file = [loads |-> FALSE, content |-> EmptyMap]
    /\ pc = "exited"
    /\ cfg = EmptyMap
    /\ out_dir = FALSE
    /\ i = 1
    /\ all_frames = <<>>
    /\ files = EmptyMap
    /\ log = <<>>
    /\ calls = <<>>
    /\ outcomes = <<>>
    /\ exit_status = -1
    /\ san_in \in SeqsUpTo(Alphabet, MaxLen)
    /\ san_out = <<>>
    /\ san_twice = <<>>
    /\ san_pc = 0

SanitizeOnce ==
    /\ san_pc = 0
    /\ san_out' = sanitize(san_in)
    /\ san_pc' = 1
    /\ UNCHANGED <<san_in, san_twice>>
    /\ UNCHANGED mainVars

SanitizeAgain ==
    /\ san_pc = 1
    /\ san_twice' = sanitize(san_out)
    /\ san_pc' = 2
    /\ UNCHANGED <<san_in, san_out>>
    /\ UNCHANGED mainVars

NextSanitize == SanitizeOnce \/ SanitizeAgain

SpecSanitize == InitSanitize /\ [][NextSanitize]_vars

\* ============================================================== properties
\* The tickers requested from the provider, in order.
RECURSIVE ArgsOf(_, _)
ArgsOf(cs, op) ==
    IF cs = <<>> THEN <<>>
    ELSE IF Head(cs).op = op THEN <<Head(cs).arg>> \o ArgsOf(Tail(cs), op)
    ELSE ArgsOf(Tail(cs), op)

Requests == ArgsOf(calls, "download")

\* The frames of the handled tickers whose outcome is one of `kinds`, in order.
RECURSIVE FramesOf(_, _)
FramesOf(os, kinds) ==
    IF os = <<>> THEN <<>>
    ELSE IF Head(os).kind \in kinds
         THEN <<Head(os).df>> \o FramesOf(Tail(os), kinds)
         ELSE FramesOf(Tail(os), kinds)

Handled == 1..Len(outcomes)
Failed == {"error", "name_error", "write_error"}
LoggedAt(msg, k) ==
    \E n \in 1..Len(log) :
        log[n].msg = msg /\ log[n].at = k /\ log[n].tk = tickers[k]
WroteAt(k) == \E n \in 1..Len(calls) : calls[n].op = "to_csv" /\ calls[n].at = k
Count(seq, x) == Cardinality({n \in 1..Len(seq) : seq[n] = x})
SameRows(a, b) ==
    /\ Len(a) = Len(b)
    /\ \A n \in 1..Len(a) : Count(a, a[n]) = Count(b, a[n])
LoopOver == pc = "exited" /\ tickers # <<>>

\* C1: with a non-empty tickers list the requests sent to the provider are
\* the tickers handled so far, in the list's order, one per occurrence, and
\* when the run has ended they are the whole list, whatever the outcomes were.
C1_RequestsEqualSymbolList ==
    tickers # <<>> =>
        /\ Len(outcomes) = i - 1
        /\ Requests = SubSeq(tickers, 1, i - 1)
        /\ (pc = "exited" => Requests = tickers)

C1_Witness ==
    /\ LoopOver
    /\ Len(tickers) >= 2
    /\ tickers[1] = tickers[2]
    /\ outcomes[1].kind = "error"
    /\ Requests = tickers

\* C2 (as stated): if every symbol of a non-empty list failed or was empty,
\* the ended run wrote no merged file, printed the no-data message and exited 0.
C2_AllFailedOrEmptyNoMerged ==
    (LoopOver /\ \A k \in Handled : outcomes[k].kind \in Failed \cup {"empty"})
        => /\ MERGED_NAME \notin DOMAIN files
           /\ \E n \in 1..Len(log) : log[n].msg = "No data fetched."
           /\ exit_status = 0

\* C3: with an empty or absent tickers list the run makes no request, creates
\* no file, never enters the loop, and ends with exit status 1 and the
\* no-tickers message.
NoSymbols ==
    /\ argc >= 2
    /\ config_file.loads
    /\ get(config_file.content, "tickers", <<>>) = <<>>

C3_EmptyTickersAborts ==
    NoSymbols =>
        /\ Requests = <<>>
        /\ calls = <<>>
        /\ DOMAIN files = {}
        /\ pc # "loop"
        /\ (pc = "exited" =>
               /\ exit_status = 1
               /\ log = << [msg |-> "No tickers found in config.", tk |-> <<>>,
                            n |-> 0, at |-> 1] >>)

C3_Witness ==
    /\ NoSymbols
    /\ "tickers" \notin DOMAIN config_file.content
    /\ pc = "exited"
    /\ out_dir

C5_MergedRowsSorted ==
    LET fetched == concat(FramesOf(outcomes, {"saved", "name_error", "write_error"}))
    IN
    /\ MERGED_NAME \in DOMAIN files =>
          LET m == files[MERGED_NAME] IN
          /\ SameRows(m, fetched)
          /\ \A a, b \in 1..Len(m) :
                /\ StrLess(m[a].ticker, m[b].ticker) => a < b
                /\ (m[a].ticker = m[b].ticker /\ StrLess(m[a].date, m[b].date))
                      => a < b
    /\ (LoopOver /\ exit_status = 0 /\ fetched # <<>>)
          => MERGED_NAME \in DOMAIN files

C5_Witness ==
    /\ MERGED_NAME \in DOMAIN files
    /\ Len(files[MERGED_NAME]) >= 2
    /\ files[MERGED_NAME] # concat(all_frames)
    /\ \E a, b \in 1..Len(files[MERGED_NAME]) :
          a # b /\ files[MERGED_NAME][a].ticker # files[MERGED_NAME][b].ticker

\* C6 (as stated): a symbol whose fetch, file name or write failed has an
\* ERROR line naming it, is not among the collected frames, has no rows in the
\* merged file, and the loop goes on.
C6_FailedSymbolSkipped ==
    /\ \A k \in Handled :
          outcomes[k].kind \in Failed => (LoggedAt("ERROR", k) /\ i > k)
    /\ all_frames = FramesOf(outcomes, {"saved"})
    /\ MERGED_NAME \in DOMAIN files =>
          SameRows(files[MERGED_NAME], concat(FramesOf(outcomes, {"saved"})))

\* C7 (as stated): every handled symbol is followed by one sleep, so exactly
\* one sleep lies between two consecutive requests.
SleepsBetween(a, b) ==
    Cardinality({n \in (a + 1)..(b - 1) : calls[n].op = "sleep"})

C7_OneSleepPerSymbol ==
    /\ \A k \in Handled :
          \E n \in 1..Len(calls) : calls[n].op = "sleep" /\ calls[n].at = k
    /\ \A a, b \in 1..Len(calls) :
          (/\ a < b
           /\ calls[a].op = "download"
           /\ calls[b].op = "download"
           /\ \A n \in (a + 1)..(b - 1) : calls[n].op # "download")
              => SleepsBetween(a, b) = 1

\* C8: sanitize keeps the length, keeps every alphanumeric character and every
\* one of - _ . ( ) and space, puts _ in place of any other, and applying it
\* to its own result changes nothing.
Kept == (48..57) \cup (65..90) \cup (97..122) \cup {45, 95, 46, 40, 41, 32}

C8_SanitizeIdempotent ==
    /\ san_pc >= 1 =>
          /\ Len(san_out) = Len(san_in)
          /\ \A k \in 1..Len(san_in) :
                san_out[k] = IF san_in[k] \in Kept THEN san_in[k] ELSE 95
    /\ san_pc = 2 => san_twice = san_out

C8_Witness ==
    /\ san_pc = 2
    /\ Len(san_in) >= 2
    /\ san_out # san_in
    /\ \E k \in 1..Len(san_in) : san_out[k] = san_in[k]

\* The file name the specification gives the k-th ticker.
ExpectedName(k) ==
    LET tk == tickers[k]
        alias == IF tk \in DOMAIN aliases THEN aliases[tk].val ELSE tk
    IN  sanitize(alias) \o <<95, 95>> \o sanitize(tk) \o <<46, 99, 115, 118>>

Saved == {k \in Handled : outcomes[k].kind = "saved"}

\* C9 (as stated): at the end of the run every saved symbol's file exists and
\* holds its table (the latest one, when the symbol is listed more than once),
\* and distinct saved symbols have distinct files.
C9_OneFilePerSymbol ==
    LoopOver =>
        /\ \A k \in Saved :
              /\ ExpectedName(k) \in DOMAIN files
              /\ (\A l \in Saved : (l > k => tickers[l] # tickers[k]))
                    => files[ExpectedName(k)] = outcomes[k].df
        /\ \A k, l \in Saved :
              tickers[k] # tickers[l] => ExpectedName(k) # ExpectedName(l)

\* C9 (amended): at the end of the run every saved symbol's file exists under
\* the name sanitize(alias)__sanitize(symbol).csv and holds the table of the
\* last saved symbol with that file name; the per-ticker files are exactly
\* these, one per distinct file name.
C9_OneFilePerFileName ==
    LoopOver =>
        /\ \A k \in Saved :
              /\ ExpectedName(k) \in DOMAIN files
              /\ (\A l \in Saved : (l > k => ExpectedName(l) # ExpectedName(k)))
                    => files[ExpectedName(k)] = outcomes[k].df
        /\ DOMAIN files \ {MERGED_NAME} = {ExpectedName(k) : k \in Saved}

C9_Witness ==
    /\ LoopOver
    /\ \E k, l \in Saved :
          /\ k < l
          /\ tickers[k] # tickers[l]
          /\ ExpectedName(k) = ExpectedName(l)
          /\ files[ExpectedName(k)] = outcomes[l].df
          /\ files[ExpectedName(k)] # outcomes[k].df

\* C10 (as stated): the count of the final summary is the number of per-ticker
\* files written in the run.
C10_SummaryCountsWrittenFiles ==
    \A n \in 1..Len(log) :
        log[n].msg = "Saved" =>
            log[n].n = Cardinality({c \in 1..Len(calls) :
                           calls[c].op = "to_csv" /\ calls[c].arg # MERGED_NAME})

====
